---- MODULE Spec2Model ----
(***************************************************************************)
(* Model of src/services/api.ts: the ApiService HTTP client.  A token is   *)
(* kept in a key-value store under the key auth_token; four REST calls go  *)
(* through the shared request() procedure, which reads the token, builds   *)
(* the headers, calls fetch and turns the response into a value or an      *)
(* Error; signIn stores the access_token of its response and logout        *)
(* removes the token.  Every await in the source is a point where other    *)
(* calls may run, so each call advances in steps between its awaits.       *)
(***************************************************************************)
EXTENDS Integers, FiniteSets, Sequences, TLC

(* ----------------------------- bounds ---------------------------------- *)

\* number of calls the caller issues in one run (they may overlap)
MaxCalls == 2

Calls == 1..MaxCalls

(* ------------------------- JavaScript values --------------------------- *)

\* the value of a property that is not there (undefined)
Absent == "<undefined>"
\* what getItem / getItemAsync return when the key is not stored (null)
None == "<null>"
\* a JSON value that is an object or an array, not a string
Obj == "<object>"

Tokens == {"t1", "t2"}

\* JavaScript truthiness of the values used here: undefined, null and the
\* empty string are falsy, every other string and every object is truthy
Truthy(v) == v \notin {Absent, None, ""}

\* conversion of a value to a string, as new Error(v) and template
\* literals do it
String(v) == IF v = Obj THEN "[object Object]" ELSE v

(* ------------------------------ responses ------------------------------ *)

\* what response.json() can give: a rejection (the body is not JSON), the
\* JSON value null, or a JSON object with some of the fields the code reads
Body(p, m, d, a) == [parse |-> p, message |-> m, detail |-> d, access_token |-> a]

Unparseable == Body("fail", Absent, Absent, Absent)
NullBody == Body("null", Absent, Absent, Absent)
EmptyObject == Body("object", Absent, Absent, Absent)

ErrorBodies ==
    {Body("object", m, d, Absent) : m \in {Absent, "", "X", Obj}, d \in {Absent, "", "Y", Obj}}

TokenBodies == {Body("object", Absent, Absent, a) : a \in {Absent, ""} \cup Tokens}

OkStatus == {200}
ErrorStatus == {401, 500}

Response(th, msg, st, b) == [thrown |-> th, msg |-> msg, status |-> st, body |-> b]

NoResponse == Response(FALSE, Absent, 0, Unparseable)

\* fetch rejects (with or without a message), or resolves with a status and
\* a body
Responses ==
    {Response(TRUE, m, 0, Unparseable) : m \in {"", "Network request failed"}}
    \cup {Response(FALSE, Absent, s, b) : s \in OkStatus, b \in {Unparseable, NullBody} \cup TokenBodies}
    \cup {Response(FALSE, Absent, s, b) :
            s \in ErrorStatus, b \in {Unparseable, NullBody} \cup ErrorBodies \cup TokenBodies}

\* the responses drawn when several calls overlap: a transport failure, a
\* success with each access_token or none, and an error whose body has a token
CoreResponses ==
    {Response(TRUE, "Network request failed", 0, Unparseable)}
    \cup {Response(FALSE, Absent, 200, b) : b \in TokenBodies}
    \cup {Response(FALSE, Absent, 401, Body("object", Absent, Absent, "t1"))}

\* response.ok
Ok(resp) == resp.status >= 200 /\ resp.status <= 299

(* ------------------------------ messages ------------------------------- *)

JsonParseMessage == "Unexpected token < in JSON"
NullMessageTypeError == "Cannot read properties of null (reading 'message')"
NullTokenTypeError == "Cannot read properties of null (reading 'access_token')"
StorageMessage == "Could not access the token store"

\* getHeaders without the Authorization header
getHeadersNoAuth(token) ==
    [ContentType |-> "application/json", Authorization |-> Absent]

\* getHeaders without the test of line 41
getHeadersNoTest(token) ==
    [ContentType |-> "application/json", Authorization |-> "Bearer " \o token]

\* line 34-46: the headers of a request, given the token getToken returned
getHeaders(token) ==
    [ContentType |-> "application/json",
     Authorization |-> IF Truthy(token) THEN "Bearer " \o token ELSE Absent]

NoHeaders == [ContentType |-> Absent, Authorization |-> Absent]

\* line 73: response.json().catch(() => ({}))
errorData(resp) == IF resp.body.parse = "fail" THEN EmptyObject ELSE resp.body

\* line 79-83: the message of the Error thrown for a response that is not ok;
\* reading a property of null throws a TypeError instead
HttpErrorMessage(resp) ==
    LET e == errorData(resp) IN
    IF e.parse = "null" THEN NullMessageTypeError
    ELSE IF Truthy(e.message) THEN String(e.message)
    ELSE IF Truthy(e.detail) THEN String(e.detail)
    ELSE "HTTP Error: " \o ToString(resp.status)

\* the catch of line 89 with the fallback message only
catchMessageLost(message) == "Network connection lost"

\* line 96: throw new Error(error.message || 'Network connection lost')
catchMessage(message) == IF Truthy(message) THEN message ELSE "Network connection lost"

\* line 69-97: what request() does with the outcome of fetch: the message it
\* throws, or Absent when it returns the parsed body
requestError(resp) ==
    IF resp.thrown THEN catchMessage(resp.msg)
    ELSE IF ~Ok(resp) THEN catchMessage(HttpErrorMessage(resp))
    ELSE IF resp.body.parse = "fail" THEN catchMessage(JsonParseMessage)
    ELSE Absent

(* ------------------------------- calls --------------------------------- *)

RequestKinds == {"signUp", "signIn", "getUser", "updateUser"}

\* line 101-128: the method and the endpoint each call passes to request()
Method(kind) ==
    CASE kind = "signUp" -> "POST"
      [] kind = "signIn" -> "POST"
      [] kind = "getUser" -> "GET"
      [] kind = "updateUser" -> "PUT"

Endpoint(kind) ==
    CASE kind = "signUp" -> "/auth/register"
      [] kind = "signIn" -> "/auth/login"
      [] kind = "getUser" -> "/users/me"
      [] kind = "updateUser" -> "/users/me"

NoData == [parse |-> "none"]
\* line 132: { success: true }
Success == [success |-> TRUE]

NoRequest == [method |-> Absent, endpoint |-> Absent, Authorization |-> Absent]

\* a call that has not been issued yet
NoCall ==
    [kind |-> "none", pc |-> "idle", headers |-> NoHeaders, sent |-> NoRequest,
     resp |-> NoResponse, data |-> NoData, err |-> Absent, sends |-> 0,
     doneBefore |-> {}]

VARIABLES
    platform,    \* Platform.OS: "web" (localStorage) or "native" (SecureStore)
    store,       \* the value stored under auth_token, None when there is none
    calls,       \* the calls of the run: kind, position and local variables
    lastWriter   \* history: the call whose write or delete of the store took
                 \* effect last, 0 before any

vars == <<platform, store, calls, lastWriter>>

Finished(c) == calls[c].pc \in {"returned", "failed"}
Issued(c) == calls[c].pc # "idle"

Init ==
    /\ platform \in {"web", "native"}
    /\ store \in {None} \cup Tokens
    /\ calls = [c \in Calls |-> NoCall]
    /\ lastWriter = 0

(* ---------------- the steps of a call, as record updates --------------- *)

\* a call fails: its promise rejects with an Error carrying message m, and
\* its local variables are gone
Fail(r, m) ==
    [r EXCEPT !.pc = "failed", !.err = m, !.headers = NoHeaders, !.sent = NoRequest,
              !.resp = NoResponse, !.data = NoData]

\* a call returns value d
Return(r, d) ==
    [r EXCEPT !.pc = "returned", !.data = d, !.headers = NoHeaders, !.sent = NoRequest,
              !.resp = NoResponse]

\* line 57 with line 35: getToken has given st (or has thrown, inside the try
\* of request); on success the headers are built and fetch comes next
afterGetToken(r, st, sok) ==
    IF sok THEN [r EXCEPT !.pc = "fetch", !.headers = getHeaders(st)]
    ELSE Fail(r, catchMessage(StorageMessage))

\* setToken whose write is lost
setTokenLost(st, token) == st

\* setToken that writes only when nothing is stored
setTokenIfEmpty(st, token) == IF st = None THEN token ELSE st

\* line 18-24: what setToken leaves stored under auth_token
setToken(st, token) == token

\* removeToken that leaves the token where it is
removeTokenKeeps(st) == st

\* removeToken that stores an empty token instead of deleting the key
removeTokenEmpty(st) == ""

\* line 26-32: what removeToken leaves stored under auth_token
removeToken(st) == None

\* signUp stores the token of its response as signIn does
storesTokenSignUp(kind) == kind \in {"signIn", "signUp"}

\* line 101-128: signIn is the only call with code after request() returns
storesToken(kind) == kind = "signIn"

\* signIn without the test of line 115
signInNextNoTest(data) == IF data.parse = "null" THEN "throw" ELSE "setToken"

\* line 115-118 once request() has returned data to signIn: a truthy
\* access_token is to be stored before data is returned; reading the property
\* of null throws a TypeError
signInNext(data) ==
    IF data.parse = "null" THEN "throw"
    ELSE IF Truthy(data.access_token) THEN "setToken"
    ELSE "return"

(* ------------------------------ actions -------------------------------- *)

\* the caller issues the calls one after the other, without waiting
CanIssue(c) ==
    /\ calls[c].pc = "idle"
    /\ \A d \in Calls : d < c => Issued(d)

NewCall(kind) ==
    [NoCall EXCEPT !.kind = kind, !.doneBefore = {d \in Calls : Finished(d)}]

\* line 48-57: a call enters request(); on the web getItem is synchronous and
\* runs in the same step, on a device getItemAsync resolves in a later step
startRequest(c, kind) ==
    /\ CanIssue(c)
    /\ IF platform = "web"
       THEN \E sok \in BOOLEAN :
              calls' = [calls EXCEPT ![c] = afterGetToken(NewCall(kind), store, sok)]
       ELSE calls' = [calls EXCEPT ![c] = [NewCall(kind) EXCEPT !.pc = "getToken"]]
    /\ UNCHANGED <<platform, store, lastWriter>>

\* line 101-107
signUp(c) == startRequest(c, "signUp")

\* line 109-113
signIn(c) == startRequest(c, "signIn")

\* line 122-124
getUser(c) == startRequest(c, "getUser")

\* line 126-128
updateUser(c) == startRequest(c, "updateUser")

\* line 10-16 on a device: getItemAsync resolves (or rejects)
getToken(c) ==
    /\ calls[c].pc = "getToken"
    /\ \E sok \in BOOLEAN :
         calls' = [calls EXCEPT ![c] = afterGetToken(@, store, sok)]
    /\ UNCHANGED <<platform, store, lastWriter>>

\* line 58-69: the request goes out with the headers built before
fetch(c) ==
    /\ calls[c].pc = "fetch"
    /\ calls' = [calls EXCEPT ![c] =
                   [@ EXCEPT !.pc = "await",
                             !.sends = @ + 1,
                             !.sent = [method |-> Method(calls[c].kind),
                                       endpoint |-> Endpoint(calls[c].kind),
                                       Authorization |-> calls[c].headers.Authorization]]]
    /\ UNCHANGED <<platform, store, lastWriter>>

\* line 69: the promise of fetch settles; the server and the network decide
respond(c, R) ==
    /\ calls[c].pc = "await"
    /\ \E r \in R :
         calls' = [calls EXCEPT ![c] = [@ EXCEPT !.pc = "handle", !.resp = r]]
    /\ UNCHANGED <<platform, store, lastWriter>>

\* line 115-118 on the web: setItem is synchronous (it may throw)
signInWeb(c, data) ==
    \E sok \in BOOLEAN :
       IF sok
       THEN /\ store' = setToken(store, data.access_token)
            /\ lastWriter' = c
            /\ calls' = [calls EXCEPT ![c] = [@ EXCEPT !.pc = "stored", !.data = data,
                                                       !.resp = NoResponse]]
       ELSE /\ calls' = [calls EXCEPT ![c] = Fail(@, StorageMessage)]
            /\ UNCHANGED <<store, lastWriter>>

\* line 70-98, and line 115-118 for signIn: the response is turned into the
\* returned value or the thrown Error
request(c) ==
    /\ calls[c].pc = "handle"
    /\ LET r == calls[c]
           e == requestError(r.resp)
           data == r.resp.body
       IN  IF e # Absent
           THEN /\ calls' = [calls EXCEPT ![c] = Fail(r, e)]
                /\ UNCHANGED <<store, lastWriter>>
           ELSE IF ~storesToken(r.kind)
           THEN /\ calls' = [calls EXCEPT ![c] = Return(r, data)]
                /\ UNCHANGED <<store, lastWriter>>
           ELSE IF signInNext(data) = "throw"
           THEN /\ calls' = [calls EXCEPT ![c] = Fail(r, NullTokenTypeError)]
                /\ UNCHANGED <<store, lastWriter>>
           ELSE IF signInNext(data) = "return"
           THEN /\ calls' = [calls EXCEPT ![c] = Return(r, data)]
                /\ UNCHANGED <<store, lastWriter>>
           ELSE IF platform = "web"
           THEN signInWeb(c, data)
           ELSE /\ calls' = [calls EXCEPT ![c] = [r EXCEPT !.pc = "setToken", !.data = data,
                                                           !.resp = NoResponse]]
                /\ UNCHANGED <<store, lastWriter>>
    /\ UNCHANGED platform

\* line 116 on a device: setItemAsync resolves (or rejects)
signInSetToken(c) ==
    /\ calls[c].pc = "setToken"
    /\ \E sok \in BOOLEAN :
         IF sok
         THEN /\ store' = setToken(store, calls[c].data.access_token)
              /\ lastWriter' = c
              /\ calls' = [calls EXCEPT ![c] = [@ EXCEPT !.pc = "stored"]]
         ELSE /\ calls' = [calls EXCEPT ![c] = Fail(@, StorageMessage)]
              /\ UNCHANGED <<store, lastWriter>>
    /\ UNCHANGED platform

\* line 118: signIn returns the data it got from request()
signInReturn(c) ==
    /\ calls[c].pc = "stored"
    /\ calls' = [calls EXCEPT ![c] = Return(@, calls[c].data)]
    /\ UNCHANGED <<platform, store, lastWriter>>

\* line 131: removeToken takes effect (or throws)
logoutRemoveToken(c, r) ==
    \E sok \in BOOLEAN :
       IF sok
       THEN /\ store' = removeToken(store)
            /\ lastWriter' = c
            /\ calls' = [calls EXCEPT ![c] = [r EXCEPT !.pc = "removed"]]
       ELSE /\ calls' = [calls EXCEPT ![c] = Fail(r, StorageMessage)]
            /\ UNCHANGED <<store, lastWriter>>

\* line 130-131: logout is called; on the web removeItem runs in the same
\* step, on a device deleteItemAsync resolves in a later step
logout(c) ==
    /\ CanIssue(c)
    /\ IF platform = "web"
       THEN logoutRemoveToken(c, NewCall("logout"))
       ELSE /\ calls' = [calls EXCEPT ![c] = [NewCall("logout") EXCEPT !.pc = "removeToken"]]
            /\ UNCHANGED <<store, lastWriter>>
    /\ UNCHANGED platform

\* line 131 on a device: deleteItemAsync resolves (or rejects)
logoutDelete(c) ==
    /\ calls[c].pc = "removeToken"
    /\ logoutRemoveToken(c, calls[c])
    /\ UNCHANGED platform

\* line 132
logoutReturn(c) ==
    /\ calls[c].pc = "removed"
    /\ calls' = [calls EXCEPT ![c] = Return(@, Success)]
    /\ UNCHANGED <<platform, store, lastWriter>>

Next ==
    \E c \in Calls :
       \/ signUp(c)
       \/ signIn(c)
       \/ getUser(c)
       \/ updateUser(c)
       \/ getToken(c)
       \/ fetch(c)
       \/ respond(c, CoreResponses)
       \/ request(c)
       \/ signInSetToken(c)
       \/ signInReturn(c)
       \/ logout(c)
       \/ logoutDelete(c)
       \/ logoutReturn(c)

\* overlapping calls, each answered by one of CoreResponses
Spec == Init /\ [][Next]_vars

NextOne ==
    \E c \in {1} :
       \/ signUp(c)
       \/ signIn(c)
       \/ getUser(c)
       \/ updateUser(c)
       \/ getToken(c)
       \/ fetch(c)
       \/ respond(c, Responses)
       \/ request(c)
       \/ signInSetToken(c)
       \/ signInReturn(c)
       \/ logout(c)
       \/ logoutDelete(c)
       \/ logoutReturn(c)

\* one call, answered by any of Responses
SpecOne == Init /\ [][NextOne]_vars

(* --------------------- notions the properties use ---------------------- *)

\* the Authorization header that corresponds to store content st
HeaderFor(st) == IF st = None THEN Absent ELSE "Bearer " \o st

\* call c takes a step
Steps(c) == calls'[c] # calls[c]

\* call c builds its headers in this step (getToken has resolved)
BuildsHeaders(c) == calls[c].pc \in {"idle", "getToken"} /\ calls'[c].pc = "fetch"

\* call c has sent its request and is still in flight
InFlightSent(c) == calls[c].pc \in {"await", "handle"}

\* call c has built the headers of its request and is still in flight
HasHeaders(c) == calls[c].pc \in {"fetch", "await", "handle"}

\* call d was issued after call c had completed
StartedAfter(d, c) == Issued(d) /\ c \in calls[d].doneBefore

\* signIn s has returned a response with a truthy access_token
SignedIn(s) ==
    /\ calls[s].kind = "signIn"
    /\ calls[s].pc = "returned"
    /\ Truthy(calls[s].data.access_token)

\* the body request() hands to its caller in this step
HandledBody(c) == calls[c].resp.body

(* ------------------------------- C1 ------------------------------------ *)

\* C1 as stated: when a signIn whose response has access_token = t returns,
\* the store holds t and the response is returned unchanged, and a request
\* started after that return and before any later signIn or logout carries
\* Authorization: Bearer t.
C1_Original ==
    /\ [][\A s \in Calls :
            /\ calls[s].kind = "signIn"
            /\ calls[s].pc \in {"handle", "stored"}
            /\ calls'[s].pc = "returned"
            /\ calls'[s].data.access_token # Absent
            => /\ store' = calls'[s].data.access_token
               /\ calls'[s].data = (IF calls[s].pc = "handle" THEN HandledBody(s)
                                    ELSE calls[s].data)]_vars
    /\ [](\A s, c \in Calls :
            /\ calls[s].kind = "signIn"
            /\ calls[s].pc = "returned"
            /\ calls[s].data.access_token # Absent
            /\ StartedAfter(c, s)
            /\ HasHeaders(c)
            /\ ~\E d \in Calls :
                  d < c /\ StartedAfter(d, s) /\ calls[d].kind \in {"signIn", "logout"}
            => calls[c].headers.Authorization = "Bearer " \o calls[s].data.access_token)

\* C1, amended: a signIn whose request succeeds with a non-empty access_token
\* t leaves the store holding exactly t when its write takes effect and
\* returns the response unchanged; every request whose headers are built
\* while that write is the last change of the store carries
\* Authorization: Bearer t.
C1_SignInStoresToken ==
    /\ [](\A s \in Calls :
            lastWriter = s /\ calls[s].kind = "signIn"
            => /\ calls[s].data.access_token \in Tokens
               /\ store = calls[s].data.access_token)
    /\ [][\A s \in Calls :
            /\ calls[s].kind = "signIn"
            /\ calls[s].pc = "handle"
            /\ Steps(s)
            /\ requestError(calls[s].resp) = Absent
            /\ Truthy(HandledBody(s).access_token)
            => \/ calls'[s].pc = "failed" /\ calls'[s].err = StorageMessage /\ store' = store
               \/ /\ calls'[s].pc \in {"setToken", "stored"}
                  /\ calls'[s].data = HandledBody(s)
                  /\ calls'[s].pc = "stored" => store' = HandledBody(s).access_token]_vars
    /\ [][\A s \in Calls :
            calls[s].pc = "stored" /\ Steps(s)
            => calls'[s].pc = "returned" /\ calls'[s].data = calls[s].data]_vars
    /\ [][\A c \in Calls :
            /\ BuildsHeaders(c)
            /\ lastWriter \in Calls
            /\ calls[lastWriter].kind = "signIn"
            => calls'[c].headers.Authorization =
                  "Bearer " \o calls[lastWriter].data.access_token]_vars

\* a signIn has returned its token, it is the last change of the store, and a
\* request started after it has gone out with that token
C1_Witness ==
    \E s, c \in Calls :
       /\ SignedIn(s)
       /\ lastWriter = s
       /\ StartedAfter(c, s)
       /\ calls[c].pc = "await"
       /\ calls[c].sent.Authorization = "Bearer " \o calls[s].data.access_token

(* ------------------------------- C2 ------------------------------------ *)

\* no signIn has been issued since logout l returned
NoSignInSince(l) == ~\E d \in Calls : calls[d].kind = "signIn" /\ StartedAfter(d, l)

\* request c was started after logout l returned and before any later signIn
AfterLogout(c, l) ==
    /\ StartedAfter(c, l)
    /\ calls[c].kind \in RequestKinds
    /\ HasHeaders(c)
    /\ ~\E d \in Calls : d < c /\ calls[d].kind = "signIn" /\ StartedAfter(d, l)

\* C2 as stated: once logout has returned, and until a later signIn is
\* issued, no token is stored and requests started afterwards carry no
\* Authorization header, whatever was in flight when logout ran.
C2_Original ==
    \A l \in Calls :
       calls[l].kind = "logout" /\ calls[l].pc = "returned"
       => /\ NoSignInSince(l) => store = None
          /\ \A c \in Calls : AfterLogout(c, l) => calls[c].headers.Authorization = Absent

\* every signIn issued so far had completed when call l was issued
NoSignInPending(l) ==
    \A d \in Calls : calls[d].kind = "signIn" => d \in calls[l].doneBefore

\* C2, amended: once logout has returned, and provided every signIn issued
\* so far had already completed when that logout was called, no token is
\* stored and the requests started afterwards carry no Authorization header.
C2_LogoutClearsToken ==
    \A l \in Calls :
       calls[l].kind = "logout" /\ calls[l].pc = "returned" /\ NoSignInPending(l)
       => /\ store = None
          /\ \A c \in Calls : AfterLogout(c, l) => calls[c].headers.Authorization = Absent

\* a logout has returned and a request started after it has gone out without
\* the header
C2_Witness ==
    \E l, c \in Calls :
       /\ calls[l].kind = "logout"
       /\ calls[l].pc = "returned"
       /\ NoSignInPending(l)
       /\ AfterLogout(c, l)
       /\ calls[c].pc = "await"
       /\ calls[c].sent.Authorization = Absent
       /\ lastWriter = l
       /\ store = None

(* ------------------------------- C3 ------------------------------------ *)

\* C3: the Authorization header of every outgoing request corresponds to the
\* content of the store when the headers were built: Bearer <token> when a
\* token is stored, no header when none is; the request goes out with the
\* headers built.
C3_HeaderMatchesStore ==
    /\ [][\A c \in Calls :
            BuildsHeaders(c) => calls'[c].headers.Authorization = HeaderFor(store)]_vars
    /\ [](\A c \in Calls :
            InFlightSent(c) => calls[c].sent.Authorization = calls[c].headers.Authorization)
    /\ [](store \in {None} \cup Tokens)

\* a request is out with the token that is stored
C3_Witness ==
    \E c \in Calls :
       /\ calls[c].pc = "await"
       /\ store \in Tokens
       /\ calls[c].sent.Authorization = "Bearer " \o store

(* ------------------------------- C4 ------------------------------------ *)

\* C4 as stated: the requests of signUp and signIn never carry an
\* Authorization header.
C4_Original ==
    \A c \in Calls :
       calls[c].kind \in {"signUp", "signIn"} /\ InFlightSent(c)
       => calls[c].sent.Authorization = Absent

\* C4, amended: signUp sends POST /auth/register and signIn sends
\* POST /auth/login; they carry no Authorization header when no token is
\* stored as their headers are built, and Authorization: Bearer <token> when
\* one is, as the requests of getUser and updateUser do.
C4_AuthCallsHeader ==
    /\ [][\A c \in Calls :
            BuildsHeaders(c) /\ calls'[c].kind \in {"signUp", "signIn"}
            => calls'[c].headers.Authorization =
                  (IF store \in Tokens THEN "Bearer " \o store ELSE Absent)]_vars
    /\ [](\A c \in Calls :
            calls[c].kind \in {"signUp", "signIn"} /\ InFlightSent(c)
            => /\ calls[c].sent.method = "POST"
               /\ calls[c].sent.endpoint =
                     (IF calls[c].kind = "signUp" THEN "/auth/register" ELSE "/auth/login")
               /\ calls[c].sent.Authorization = calls[c].headers.Authorization)

\* a signUp and a signIn are out, each with a bearer header
C4_Witness ==
    \E c, d \in Calls :
       /\ calls[c].kind = "signUp"
       /\ calls[d].kind = "signIn"
       /\ calls[c].pc = "await"
       /\ calls[d].pc = "await"
       /\ calls[c].sent.Authorization \in {"Bearer " \o t : t \in Tokens}
       /\ calls[d].sent.Authorization \in {"Bearer " \o t : t \in Tokens}

(* ------------------------------- C5 ------------------------------------ *)

\* the response of call c has arrived and has no access_token
LacksToken(c) ==
    /\ calls[c].pc = "handle"
    /\ ~calls[c].resp.thrown
    /\ calls[c].resp.body.access_token = Absent

\* C5: a signIn whose response lacks access_token completes in the step that
\* handles the response, and that step leaves the token store as it is: no
\* token is written, none is overwritten or removed.
C5_NoTokenNoWrite ==
    [][\A s \in Calls :
         calls[s].kind = "signIn" /\ LacksToken(s) /\ Steps(s)
         => /\ store' = store
            /\ lastWriter' = lastWriter
            /\ calls'[s].pc \in {"returned", "failed"}]_vars

\* a signIn has returned a response without access_token and the token stored
\* before is still there
C5_Witness ==
    \E s \in Calls :
       /\ calls[s].kind = "signIn"
       /\ calls[s].pc = "returned"
       /\ calls[s].data.access_token = Absent
       /\ lastWriter = 0
       /\ store \in Tokens

(* ------------------------------- C6 ------------------------------------ *)

\* the response of call c has arrived with a status that is not 2xx
HttpFailure(c) ==
    /\ calls[c].pc = "handle"
    /\ ~calls[c].resp.thrown
    /\ ~Ok(calls[c].resp)

\* C6: a call that gets a non-2xx response with status s fails, and the
\* message the caller gets is the body's message if it has one (a value that
\* is not empty, as a string); otherwise the body's detail if it has one;
\* otherwise, also when the body is not JSON, "HTTP Error: <s>".
C6_HttpErrorMessage ==
    [][\A c \in Calls :
         HttpFailure(c) /\ Steps(c)
         => /\ calls'[c].pc = "failed"
            /\ LET b == calls[c].resp.body IN
               calls'[c].err =
                  (IF b.message \notin {Absent, ""} THEN String(b.message)
                   ELSE IF b.detail \notin {Absent, ""} THEN String(b.detail)
                   ELSE "HTTP Error: " \o ToString(calls[c].resp.status))]_vars

(* ------------------------------- C7 ------------------------------------ *)

\* C7: when fetch throws, or the body of a 2xx response is not JSON, the call
\* fails with the message of that failure, or with "Network connection lost"
\* when it has none; the call returns no value, and its request went out
\* once: a call that has completed takes no further step.
C7_LowLevelFailure ==
    /\ [][\A c \in Calls :
            calls[c].pc = "handle" /\ Steps(c)
            => LET r == calls[c].resp IN
               /\ r.thrown
                  => /\ calls'[c].pc = "failed"
                     /\ calls'[c].data = NoData
                     /\ calls'[c].err = (IF r.msg = "" THEN "Network connection lost" ELSE r.msg)
               /\ ~r.thrown /\ Ok(r) /\ r.body.parse = "fail"
                  => /\ calls'[c].pc = "failed"
                     /\ calls'[c].data = NoData
                     /\ calls'[c].err = JsonParseMessage]_vars
    /\ [][\A c \in Calls : Finished(c) => calls'[c] = calls[c]]_vars
    /\ [](\A c \in Calls : calls[c].sends <= 1)

\* a call whose transport failed without a message has failed with the
\* fallback message, after one request
C7_Witness ==
    \E c \in Calls :
       /\ calls[c].pc = "failed"
       /\ calls[c].err = "Network connection lost"
       /\ calls[c].sends = 1

(* ------------------------------- C8 ------------------------------------ *)

AllSignedInQuiet ==
    /\ \A c \in Calls : Issued(c) => Finished(c)
    /\ \A c \in Calls : calls[c].kind # "logout"
    /\ \E s \in Calls : SignedIn(s)

\* the most recently issued signIn that returned a token
LastSignedIn == CHOOSE s \in Calls : SignedIn(s) /\ \A d \in Calls : SignedIn(d) => d <= s

\* C9 as stated: after any signIn calls, overlapping or not, the store holds
\* one token, that of the most recently issued successful signIn.
C9_Original ==
    /\ store \in {None} \cup Tokens
    /\ AllSignedInQuiet => store = calls[LastSignedIn].data.access_token

\* no signIn was issued while another was in flight
SignInsSequential ==
    \A s, d \in Calls :
       calls[s].kind = "signIn" /\ calls[d].kind = "signIn" /\ s < d
       => s \in calls[d].doneBefore

\* C9, amended: the store holds at most one token, and each signIn that
\* stores a token overwrites it: the store holds the token of the signIn
\* whose write took effect last, which after signIn calls that do not overlap
\* is the most recently issued signIn that returned a token.
C9_OneTokenLastWrite ==
    /\ store \in {None} \cup Tokens
    /\ \A s \in Calls :
          lastWriter = s /\ calls[s].kind = "signIn" => store = calls[s].data.access_token
    /\ AllSignedInQuiet /\ SignInsSequential
       => store = calls[LastSignedIn].data.access_token

\* two signIn calls, one after the other, returned different tokens and the
\* second token is stored
C9_Witness ==
    \E s, d \in Calls :
       /\ s < d
       /\ SignedIn(s)
       /\ SignedIn(d)
       /\ s \in calls[d].doneBefore
       /\ calls[s].data.access_token # calls[d].data.access_token
       /\ store = calls[d].data.access_token

(* ------------------------------- C10 ----------------------------------- *)

\* C10: the token store changes only in the step of a signIn that stores the
\* token of its response and in the step of a logout that deletes it: no
\* step of signUp, getUser or updateUser changes it, whatever the response,
\* and the step in which a signIn fails leaves it as it was.
C10_OnlySignInAndLogoutWrite ==
    [][\A c \in Calls :
         Steps(c)
         => /\ calls'[c].kind \in {"signUp", "getUser", "updateUser"} => store' = store
            /\ calls'[c].kind = "signIn" /\ calls'[c].pc = "failed" => store' = store
            /\ store' # store
               => \/ /\ calls'[c].kind = "signIn"
                     /\ calls'[c].pc = "stored"
                     /\ store' = calls'[c].data.access_token
                  \/ calls'[c].kind = "logout" /\ calls'[c].pc = "removed" /\ store' = None]_vars

\* a signUp has returned a response with an access_token, and the store still
\* has what it had
C10_Witness ==
    \E c \in Calls :
       /\ calls[c].kind = "signUp"
       /\ calls[c].pc = "returned"
       /\ calls[c].data.access_token \in Tokens
       /\ lastWriter = 0
       /\ store # calls[c].data.access_token

====
